---- MODULE Spec2Model ----
(***************************************************************************)
(* Model of the speedy network monitor: NetworkMonitor::refresh            *)
(* (src/src/network_monitor.rs), the Windows interface-table classifier    *)
(* get_iftable2_stats (src/src/network_windows.rs) and the Linux counter   *)
(* table reader read_proc_net_dev (src/src/network_linux.rs).              *)
(*                                                                         *)
(* Strings are TLA+ strings; substring search, replacement, trimming and   *)
(* comparison are computed character by character as the Rust standard     *)
(* library computes them.  A u64 is an integer in 0..U64Max.  An f64 rate  *)
(* is the exact quotient of two small integers, kept as a reduced fraction *)
(* <<numerator, denominator>>.                                             *)
(***************************************************************************)
EXTENDS Integers, Sequences, FiniteSets, TLC

VARIABLES
    platform,         \* cfg(target_os): "linux", "windows" or "other"
    overflow_checks,  \* build profile: TRUE when integer overflow panics
    previous_stats,   \* NetworkMonitor.previous_stats: name -> (rx, tx, time)
    linux_totals,     \* NetworkMonitor.linux_totals: name -> (rx, tx)
    windows_totals,   \* NetworkMonitor.windows_totals: name -> (rx, tx)
    networks,         \* NetworkMonitor.networks as enumerated by the last call
    now,              \* the monotonic clock read by Instant::now()
    stats,            \* the snapshot returned by the last refresh call
    panicked,         \* TRUE once a refresh call has panicked
    polls,            \* number of refresh calls made so far
    platform_source,  \* outcome of the platform counter source in the last call
    show_virtual,     \* argument of the last classifier call
    table,            \* rows of the interface table read by the last call
    filtered_stats,   \* get_iftable2_stats: rows that passed the filter
    win_stats,        \* get_iftable2_stats: the returned unique_stats
    before,           \* previous_stats, now and stats when the last call began
    proc_file,        \* /proc/net/dev as the last read_proc_net_dev call found it
    linux_stats,      \* read_proc_net_dev: the returned stats
    if_table_ptr,     \* get_iftable2_stats: what GetIfTable2 left in if_table_ptr
    free_calls,       \* get_iftable2_stats: FreeMibTable calls made by the last call
    bytes,            \* argument of the last formatter call
    formatted         \* what the last formatter call returned

vars == <<platform, overflow_checks, previous_stats, linux_totals,
          windows_totals, networks, now, stats, panicked, polls,
          platform_source, show_virtual, table, filtered_stats, win_stats,
          before, proc_file, linux_stats, if_table_ptr, free_calls,
          bytes, formatted>>

-----------------------------------------------------------------------------
(* Bounds of the model *)

\* largest value of a modelled u64 counter (stands for 2^64 - 1)
U64Max == 1
\* largest number of refresh calls in one behaviour
MaxPolls == 2
\* largest clock advance between two refresh calls
MaxDt == 2
\* largest number of rows in an interface table
MaxRows == 2

U64 == 0..U64Max

-----------------------------------------------------------------------------
(* Strings *)

\* str::contains: pat occurs in s as a contiguous substring
Contains(s, pat) ==
    \E i \in 1..(Len(s) - Len(pat) + 1) : SubSeq(s, i, i + Len(pat) - 1) = pat

\* str::replace(pat, ""): remove every non-overlapping occurrence, left to right
RECURSIVE Remove(_, _)
Remove(s, pat) ==
    IF Len(s) < Len(pat) THEN s
    ELSE IF SubSeq(s, 1, Len(pat)) = pat
         THEN Remove(SubSeq(s, Len(pat) + 1, Len(s)), pat)
         ELSE SubSeq(s, 1, 1) \o Remove(SubSeq(s, 2, Len(s)), pat)

\* str::trim_start / str::trim_end / str::trim over the whitespace of the model
RECURSIVE TrimStart(_)
TrimStart(s) ==
    IF Len(s) > 0 /\ SubSeq(s, 1, 1) = " "
    THEN TrimStart(SubSeq(s, 2, Len(s))) ELSE s

RECURSIVE TrimEnd(_)
TrimEnd(s) ==
    IF Len(s) > 0 /\ SubSeq(s, Len(s), Len(s)) = " "
    THEN TrimEnd(SubSeq(s, 1, Len(s) - 1)) ELSE s

Trim(s) == TrimEnd(TrimStart(s))

Range(f) == {f[x] : x \in DOMAIN f}

\* the characters of the model's strings in increasing byte order
Ascii == " ()-.0123456789ABCDEFGHIJKLMNOPQRSTUVWXYZabcdefghijklmnopqrstuvwxyz"

Byte(c) == CHOOSE i \in 1..Len(Ascii) : SubSeq(Ascii, i, i) = c

\* Ord for str: lexicographic comparison of the bytes; TRUE when a < b
RECURSIVE StrLess(_, _)
StrLess(a, b) ==
    IF Len(b) = 0 THEN FALSE
    ELSE IF Len(a) = 0 THEN TRUE
    ELSE IF SubSeq(a, 1, 1) = SubSeq(b, 1, 1)
         THEN StrLess(SubSeq(a, 2, Len(a)), SubSeq(b, 2, Len(b)))
         ELSE Byte(SubSeq(a, 1, 1)) < Byte(SubSeq(b, 1, 1))

\* no read of /proc/net/dev has been made
NoFile == [open |-> FALSE, readable |-> FALSE, lines |-> <<>>]

-----------------------------------------------------------------------------
(* Formatters: format_bytes and format_total_bytes *)

\* An f64 size is kept exactly, in base 1024: int holds the digits of its
\* integer part, least significant first, and frac the digits of its
\* fraction, most significant first.  Dividing by 1024.0 moves one digit.

\* the divisor and threshold of both loops
Base == 1024

\* number of base-1024 digits of a formatter argument
MaxLimbs == 6

NoSize == [int |-> <<>>, frac |-> <<>>]

NotFormatted == [fn |-> "none", size |-> NoSize, precision |-> 0, unit |-> ""]

\* const UNITS of format_bytes
RateUnits == <<"B/s", "KB/s", "MB/s", "GB/s">>

\* const UNITS of format_total_bytes
TotalUnits == <<"B", "KB", "MB", "GB", "TB">>

\* size > n, for 0 < n <= 1024
size_gt(size, n) ==
    LET low == IF size.int = <<>> THEN 0 ELSE size.int[1]
        rest == (\E i \in DOMAIN size.frac : size.frac[i] # 0)
    IN  IF n = Base
        THEN \/ \E i \in 3..Len(size.int) : size.int[i] # 0
             \/ Len(size.int) >= 2 /\ size.int[2] > 1
             \/ Len(size.int) >= 2 /\ size.int[2] = 1 /\ (low > 0 \/ rest)
        ELSE \/ \E i \in 2..Len(size.int) : size.int[i] # 0
             \/ low > n
             \/ low = n /\ rest

\* size >= n, for 0 < n <= 1024
size_ge(size, n) ==
    \/ \E i \in 2..Len(size.int) : size.int[i] # 0
    \/ n < Base /\ size.int # <<>> /\ size.int[1] >= n

\* size /= 1024.0
div_base(size) ==
    IF size.int = <<>>
    THEN [int |-> <<>>, frac |-> <<0>> \o size.frac]
    ELSE [int |-> Tail(size.int), frac |-> <<size.int[1]>> \o size.frac]

\* while size >= 1024.0 && unit_index < UNITS.len() - 1
RECURSIVE scale_loop(_, _, _)
scale_loop(size, unit_index, units) ==
    IF size_ge(size, Base) /\ unit_index < Len(units) - 1
    THEN scale_loop(div_base(size), unit_index + 1, units)
    ELSE [size |-> size, unit_index |-> unit_index]

\* the string both formatters build: size printed with precision decimals,
\* a blank and the unit
format_with(fn, size, units) ==
    LET r == scale_loop(size, 0, units)
    IN  [fn        |-> fn,
         size      |-> r.size,
         precision |-> IF size_ge(r.size, 100) THEN 0
                       ELSE IF size_ge(r.size, 10) THEN 1 ELSE 2,
         unit      |-> units[r.unit_index + 1]]

\* bytes as f64: exact for the arguments of the model, which are below 2^53
as_f64(n) == [int |-> n, frac |-> <<>>]

\* digits of the arguments: thresholds of the loop and of the precision
Limbs == {0, 1, 10, 100, 1023}

\* the u64 totals format_total_bytes is called with
TotalSizes ==
    { Append(low, top) : low \in [1..(MaxLimbs - 1) -> Limbs], top \in {0, 1, 7} }

\* the non-negative f64 rates format_bytes is called with
RateSizes ==
    { [int |-> n, frac |-> f] : n \in TotalSizes, f \in {<<>>, <<512>>} }

InitFmt ==
    /\ platform = "other"
    /\ overflow_checks = FALSE
    /\ previous_stats = <<>>
    /\ linux_totals = <<>>
    /\ windows_totals = <<>>
    /\ networks = <<>>
    /\ now = 0
    /\ stats = <<>>
    /\ panicked = FALSE
    /\ polls = 0
    /\ platform_source = "none"
    /\ show_virtual = FALSE
    /\ table = <<>>
    /\ filtered_stats = <<>>
    /\ win_stats = <<>>
    /\ before = [previous_stats |-> <<>>, now |-> 0, stats |-> <<>>]
    /\ proc_file = NoFile
    /\ linux_stats = <<>>
    /\ if_table_ptr = "null"
    /\ free_calls = 0
    /\ bytes \in RateSizes
    /\ formatted = NotFormatted

format_bytes ==
    /\ formatted.fn = "none"
    /\ formatted' = format_with("format_bytes", bytes, RateUnits)
    /\ UNCHANGED <<platform, overflow_checks, previous_stats, linux_totals,
                   windows_totals, networks, now, stats, panicked, polls,
                   platform_source, show_virtual, table, filtered_stats,
                   win_stats, before, proc_file, linux_stats, if_table_ptr,
                   free_calls, bytes>>

\* the argument is a u64: it has no fraction
format_total_bytes ==
    /\ formatted.fn = "none"
    /\ bytes.frac = <<>>
    /\ formatted' = format_with("format_total_bytes", as_f64(bytes.int), TotalUnits)
    /\ UNCHANGED <<platform, overflow_checks, previous_stats, linux_totals,
                   windows_totals, networks, now, stats, panicked, polls,
                   platform_source, show_virtual, table, filtered_stats,
                   win_stats, before, proc_file, linux_stats, if_table_ptr,
                   free_calls, bytes>>

NextFmt == format_bytes \/ format_total_bytes

SpecFmt == InitFmt /\ [][NextFmt]_vars

-----------------------------------------------------------------------------
(* Windows source: src/src/network_windows.rs *)

\* the safety limit on the number of table rows processed
IfTableLimit == 50

Min(a, b) == IF a < b THEN a ELSE b

\* get_interface_name: the Description buffer up to its terminator, or a
\* placeholder when the buffer is empty; it never fails
get_interface_name(row) ==
    IF Len(row.Description) > 0 THEN row.Description ELSE "Unknown Interface"

\* get_interface_friendly_name: the Alias buffer up to its terminator
get_interface_friendly_name(row) ==
    IF Len(row.Alias) > 0 THEN row.Alias ELSE ""

\* the row loop: one WindowsNetworkStats per processed row
raw_stats(rows) ==
    [i \in 1..Min(Len(rows), IfTableLimit) |->
        [name              |-> get_interface_name(rows[i]),
         bytes_received    |-> rows[i].InOctets,
         bytes_transmitted |-> rows[i].OutOctets,
         friendly_name     |-> get_interface_friendly_name(rows[i])]]

\* "Always skip loopback interfaces"
skip_loopback(stat) ==
    \/ Contains(stat.name, "Loopback")
    \/ Contains(stat.friendly_name, "Loopback")

\* "Always skip system debug and Windows network stack components"
skip_system(stat) ==
    \/ Contains(stat.name, "Microsoft Kernel Debug")
    \/ Contains(stat.name, "Teredo")
    \/ Contains(stat.name, "6to4")
    \/ Contains(stat.name, "ISATAP")
    \/ Contains(stat.name, "Microsoft Wi-Fi Direct Virtual Adapter")
    \/ Contains(stat.friendly_name, "Teredo")

\* "Always skip Windows network stack layers"
skip_stack_layer(stat) ==
    \/ Contains(stat.name, "QoS Packet Scheduler")
    \/ Contains(stat.name, "WFP")
    \/ Contains(stat.name, "LightWeight Filter")
    \/ Contains(stat.name, "Native MAC Layer")
    \/ Contains(stat.friendly_name, "QoS Packet Scheduler")
    \/ Contains(stat.friendly_name, "WFP")
    \/ Contains(stat.friendly_name, "LightWeight Filter")

\* "Virtual adapter filtering: skip only if show_virtual is false"
skip_virtual(stat) ==
    \/ Contains(stat.name, "Miniport")
    \/ Contains(stat.name, "Virtual")
    \/ Contains(stat.name, "TAP-")
    \/ Contains(stat.name, "OpenVPN")
    \/ Contains(stat.name, "VMware")
    \/ Contains(stat.name, "VirtualBox")
    \/ Contains(stat.name, "Tailscale")
    \/ Contains(stat.name, "WireGuard")
    \/ Contains(stat.friendly_name, "Virtual")
    \/ Contains(stat.friendly_name, "TAP")
    \/ Contains(stat.friendly_name, "VPN")
    \/ Contains(stat.friendly_name, "Tailscale")
    \/ Contains(stat.friendly_name, "WireGuard")

\* the filter closure: TRUE when the entry is kept
filter_closure(stat, sv) ==
    IF skip_loopback(stat) THEN FALSE
    ELSE IF skip_system(stat) THEN FALSE
    ELSE IF skip_stack_layer(stat) THEN FALSE
    ELSE IF ~sv /\ skip_virtual(stat) THEN FALSE
    ELSE TRUE

\* the deduplication key of an entry
dedup_key(stat) ==
    IF stat.friendly_name # ""
    THEN Trim(Remove(Remove(stat.friendly_name,
                 "-WFP Native MAC Layer LightWeight Filter-0000"),
                 "-WFP Native MAC Layer LightWeight Filter"))
    ELSE stat.name

\* u64 addition: panics when the build checks overflow, wraps otherwise
add_u64(a, b, checks) ==
    IF a + b > U64Max
    THEN [panic |-> checks, value |-> (a + b) % (U64Max + 1)]
    ELSE [panic |-> FALSE, value |-> a + b]

\* should_keep: the entry replaces the one stored under its key
should_keep(existing, stat, checks) ==
    LET existing_total == add_u64(existing.bytes_received,
                                  existing.bytes_transmitted, checks)
        current_total  == add_u64(stat.bytes_received,
                                  stat.bytes_transmitted, checks)
    IN  [panic |-> existing_total.panic \/ current_total.panic,
         keep  |-> IF current_total.value > existing_total.value THEN TRUE
                   ELSE IF current_total.value = existing_total.value
                        THEN ~Contains(stat.name, "WFP")
                             /\ Contains(existing.name, "WFP")
                        ELSE FALSE]

\* one iteration of the deduplication loop on interface_map
dedup_step(acc, stat, checks) ==
    LET key == dedup_key(stat)
        cleaned_stat == [name              |-> key,
                         bytes_received    |-> stat.bytes_received,
                         bytes_transmitted |-> stat.bytes_transmitted,
                         friendly_name     |-> key]
    IN  IF acc.panic THEN acc
        ELSE IF key = "" THEN acc
        ELSE IF key \in DOMAIN acc.map
        THEN LET d == should_keep(acc.map[key], stat, checks)
             IN  IF d.panic THEN [acc EXCEPT !.panic = TRUE]
                 ELSE IF d.keep
                      THEN [acc EXCEPT !.map = [acc.map EXCEPT ![key] = cleaned_stat]]
                      ELSE acc
        ELSE [acc EXCEPT !.map = (key :> cleaned_stat) @@ acc.map]

RECURSIVE dedup_loop(_, _, _, _)
dedup_loop(acc, filtered, i, checks) ==
    IF i > Len(filtered) THEN acc
    ELSE dedup_loop(dedup_step(acc, filtered[i], checks), filtered, i + 1, checks)

\* the filtered entries of a table, in table order
filter_stats(rows, sv) ==
    SelectSeq(raw_stats(rows), LAMBDA stat : filter_closure(stat, sv))

\* a guard that never releases its table
forget(ptr) == 0

\* InterfaceTable::drop: the number of FreeMibTable calls it makes
drop(ptr) == IF ptr # "null" THEN 1 ELSE 0

\* get_iftable2_stats on a table that was read successfully: the filtered
\* entries and the final interface_map, or a panic
get_iftable2_stats(rows, sv, checks) ==
    LET filtered == filter_stats(rows, sv)
        acc == dedup_loop([panic |-> FALSE, map |-> <<>>], filtered, 1, checks)
    IN  [panic |-> acc.panic, filtered |-> filtered, interface_map |-> acc.map]

\* every order in which the values of a map can be enumerated
Enumerations(map) ==
    LET n == Cardinality(DOMAIN map)
    IN  {s \in [1..n -> Range(map)] : \A i, j \in 1..n : i # j => s[i] # s[j]}

-----------------------------------------------------------------------------
(* Interface tables the operating system can return *)

\* (Description, Alias) of the rows: adapters, driver-stack layers and
\* pseudo-adapters
RowNames ==
    { <<"Intel NIC", "Ethernet">>,
      <<"Realtek NIC", "Ethernet">>,
      <<"Realtek NIC", "Ethernet-Miniport Adapter">>,
      <<"Intel NIC-WFP Native MAC Layer LightWeight Filter-0000",
        "Ethernet-WFP Native MAC Layer LightWeight Filter-0000">>,
      <<"Software Loopback Interface 1", "Loopback Pseudo-Interface 1">>,
      <<"Tunnel Adapter", "ISATAP Tunnel">>,
      <<"WAN Miniport (IP)", "Local Area Connection">>,
      <<"Hyper-V Virtual Ethernet Adapter", "vEthernet-Virtual Switch">>,
      <<"Microsoft Wi-Fi Direct Virtual Adapter", "Local Area Connection 2">>,
      <<"", "">>,
      <<"Intel NIC", " ">> }

\* the rows the monitor is polled with
MonitorRowNames ==
    { <<"Intel NIC", "Ethernet">>,
      <<"Realtek NIC", "Ethernet-Miniport Adapter">> }

\* two adapters with one alias: one deduplication group
DedupRowNames ==
    { <<"Intel NIC", "Ethernet">>,
      <<"Realtek NIC", "Ethernet">> }

Rows(names) ==
    { [Description |-> n[1], Alias |-> n[2], InOctets |-> rx, OutOctets |-> tx] :
        n \in names, rx \in U64, tx \in U64 }

SeqsUpTo(S, n) == UNION { [1..k -> S] : k \in 0..n }

Tables == SeqsUpTo(Rows(RowNames), MaxRows)

MonitorTables == SeqsUpTo(Rows(MonitorRowNames), MaxRows)

DedupTables == SeqsUpTo(Rows(DedupRowNames), MaxRows)

\* get_iftable2_stats tabulated over the tables the monitor is polled with
iftable2_stats ==
    [t \in MonitorTables \cup DedupTables, sv \in BOOLEAN, checks \in BOOLEAN |->
        get_iftable2_stats(t, sv, checks)] @@ <<>>

-----------------------------------------------------------------------------
(* The classifier on its own: one call of get_network_interface_stats *)

InitWin ==
    /\ platform = "windows"
    /\ overflow_checks \in BOOLEAN
    /\ previous_stats = <<>>
    /\ linux_totals = <<>>
    /\ windows_totals = <<>>
    /\ networks = <<>>
    /\ now = 0
    /\ stats = <<>>
    /\ panicked = FALSE
    /\ polls = 0
    /\ platform_source = "none"
    /\ show_virtual \in BOOLEAN
    /\ table \in Tables
    /\ filtered_stats = <<>>
    /\ win_stats = <<>>
    /\ before = [previous_stats |-> <<>>, now |-> 0, stats |-> <<>>]
    /\ proc_file = NoFile
    /\ linux_stats = <<>>
    /\ if_table_ptr = "null"
    /\ free_calls = 0
    /\ bytes = NoSize
    /\ formatted = NotFormatted

get_network_interface_stats ==
    /\ polls = 0
    /\ LET r == get_iftable2_stats(table, show_virtual, overflow_checks)
       IN  /\ panicked' = r.panic
           /\ filtered_stats' = IF r.panic THEN <<>> ELSE r.filtered
           /\ win_stats' \in IF r.panic THEN {<<>>} ELSE Enumerations(r.interface_map)
           \* _table_guard is dropped when the function returns; a panic
           \* drops it while unwinding, or aborts the process
           /\ if_table_ptr' = "table"
           /\ free_calls' \in IF r.panic THEN {0, drop("table")} ELSE {drop("table")}
    /\ polls' = 1
    /\ platform_source' = "ok"
    /\ UNCHANGED <<platform, overflow_checks, previous_stats, linux_totals,
                   windows_totals, networks, now, stats, show_virtual, table,
                   before, proc_file, linux_stats, bytes, formatted>>

NextWin == get_network_interface_stats

SpecWin == InitWin /\ [][NextWin]_vars

-----------------------------------------------------------------------------
(* Linux source: src/src/network_linux.rs *)

\* number of whitespace-separated columns a data row must have
MinColumns == 17

\* str::split_whitespace: the maximal runs of non-blank characters, in order
SplitWhitespace(s) ==
    LET blank(i) == SubSeq(s, i, i) = " "
        starts == {i \in 1..Len(s) : ~blank(i) /\ (i = 1 \/ blank(i - 1))}
        ends   == {i \in 1..Len(s) : ~blank(i) /\ (i = Len(s) \/ blank(i + 1))}
        nth(S, k) == CHOOSE i \in S : Cardinality({j \in S : j < i}) = k - 1
    IN  [k \in 1..Cardinality(starts) |-> SubSeq(s, nth(starts, k), nth(ends, k))]

\* str::trim_end_matches(':')
RECURSIVE TrimEndColons(_)
TrimEndColons(s) ==
    IF Len(s) > 0 /\ SubSeq(s, Len(s), Len(s)) = ":"
    THEN TrimEndColons(SubSeq(s, 1, Len(s) - 1)) ELSE s

DecimalDigits == "0123456789"

IsDigit(c) == \E d \in 1..10 : SubSeq(DecimalDigits, d, d) = c

DigitValue(c) == (CHOOSE d \in 1..10 : SubSeq(DecimalDigits, d, d) = c) - 1

\* str::parse::<u64>: an optional '+', then at least one decimal digit and
\* nothing else; a value above the largest u64 is an error
RECURSIVE ParseDigits(_, _, _)
ParseDigits(s, i, value) ==
    IF i > Len(s) THEN [ok |-> TRUE, value |-> value]
    ELSE IF ~IsDigit(SubSeq(s, i, i)) THEN [ok |-> FALSE, value |-> 0]
    ELSE LET v == value * 10 + DigitValue(SubSeq(s, i, i))
         IN  IF v > U64Max THEN [ok |-> FALSE, value |-> 0]
             ELSE ParseDigits(s, i + 1, v)

ParseU64(s) ==
    LET digits == IF Len(s) > 0 /\ SubSeq(s, 1, 1) = "+"
                  THEN SubSeq(s, 2, Len(s)) ELSE s
    IN  IF digits = "" THEN [ok |-> FALSE, value |-> 0]
        ELSE ParseDigits(digits, 1, 0)

\* the body of the line loop for one line: the entries it adds to stats
parse_line(line_num, line) ==
    IF line_num < 2 THEN <<>>
    ELSE LET parts == SplitWhitespace(line)
         IN  IF Len(parts) < MinColumns THEN <<>>
             ELSE LET rx == ParseU64(parts[2])
                      tx == ParseU64(parts[10])
                  IN  IF rx.ok /\ tx.ok
                      THEN << [name              |-> TrimEndColons(parts[1]),
                               bytes_received    |-> rx.value,
                               bytes_transmitted |-> tx.value] >>
                      ELSE <<>>

RECURSIVE parse_lines(_, _)
parse_lines(lines, i) ==
    IF i > Len(lines) THEN <<>>
    ELSE parse_line(i - 1, lines[i]) \o parse_lines(lines, i + 1)

\* the character of the model's alphabet that stands for a byte sequence
\* that is not UTF-8
InvalidByte == "#"

\* BufRead::lines yields Err(InvalidData) for a line that is not UTF-8
valid_utf8(line) == ~Contains(line, InvalidByte)

\* read_proc_net_dev: file.open is FALSE when File::open fails, file.readable
\* is FALSE when reading a line fails; `line?` returns the error of the first
\* line that cannot be read, whatever was pushed before
read_proc_net_dev(file) ==
    IF ~file.open \/ ~file.readable
    THEN [ok |-> FALSE, stats |-> <<>>]
    ELSE IF \E i \in DOMAIN file.lines : ~valid_utf8(file.lines[i])
    THEN [ok |-> FALSE, stats |-> <<>>]
    ELSE [ok |-> TRUE, stats |-> parse_lines(file.lines, 1)]

-----------------------------------------------------------------------------
(* Counter tables the Linux kernel can expose *)

Header1 == "Inter-   Receive                          Transmit"
Header2 == " face bytes packets errs drop fifo frame compressed multicast bytes packets errs drop fifo colls carrier compressed"

Decimal(n) == SubSeq(DecimalDigits, n + 1, n + 1)

\* a well-formed data row of /proc/net/dev
DataLine(name, rx, tx) ==
    "  " \o name \o ": " \o Decimal(rx) \o " 0 0 0 0 0 0 0 "
         \o Decimal(tx) \o " 0 0 0 0 0 0 0"

\* the interfaces the monitor's counter table lists
MonitorProcNames == {"eth0"}

MonitorDataLines == { DataLine(n, rx, tx) : n \in MonitorProcNames, rx \in U64, tx \in U64 }

\* at most one data row after the two header lines; or the file cannot be
\* opened
MonitorProcFiles ==
    { [open |-> TRUE, readable |-> TRUE, lines |-> <<Header1, Header2>> \o body] :
        body \in SeqsUpTo(MonitorDataLines, 1) }
    \cup { [open |-> FALSE, readable |-> TRUE, lines |-> <<>>] }

\* a counter table that lists an interface whose name contains the name of
\* another: eth0 and one end of a virtual ethernet pair
ReconcilerProcNames == {"eth0", "veth0"}

ReconcilerDataLines ==
    { DataLine(n, rx, tx) : n \in ReconcilerProcNames, rx \in U64, tx \in U64 }

ReconcilerProcFiles ==
    { [open |-> TRUE, readable |-> TRUE, lines |-> <<Header1, Header2>> \o body] :
        body \in SeqsUpTo(ReconcilerDataLines, 1) }
    \cup { [open |-> FALSE, readable |-> TRUE, lines |-> <<>>] }

\* read_proc_net_dev tabulated over the files of the model
proc_net_dev ==
    [f \in MonitorProcFiles \cup ReconcilerProcFiles |-> read_proc_net_dev(f)] @@ <<>>

-----------------------------------------------------------------------------
(* The reader on its own: one call of read_proc_net_dev *)

\* largest number of lines in a counter table
MaxLines == 4

\* the well-formed rows of the tables the reader is called with
ReaderRows ==
    { <<"eth0", rx, tx>> : rx \in U64, tx \in U64 } \cup { <<"lo", 1, 1>> }

\* rows that are not well formed: too few columns, a receive field that is
\* not a number, a negative transmit field, a counter above the largest u64,
\* a name that is not UTF-8, an empty line
MalformedLines ==
    { "  eth0: 1 0 0 0",
      "  eth0: x 0 0 0 0 0 0 0 1 0 0 0 0 0 0 0",
      "  eth0: 1 0 0 0 0 0 0 0 -1 0 0 0 0 0 0 0",
      "  eth0: " \o Decimal(U64Max + 1) \o " 0 0 0 0 0 0 0 1 0 0 0 0 0 0 0",
      "  " \o InvalidByte \o "th0: 1 0 0 0 0 0 0 0 1 0 0 0 0 0 0 0",
      "" }

ReaderLines ==
    { DataLine(r[1], r[2], r[3]) : r \in ReaderRows }
        \cup MalformedLines \cup {Header1, Header2}

ReaderFiles ==
    { [open |-> TRUE, readable |-> TRUE, lines |-> l] :
        l \in SeqsUpTo(ReaderLines, MaxLines) }

InitProc ==
    /\ platform = "linux"
    /\ overflow_checks = FALSE
    /\ previous_stats = <<>>
    /\ linux_totals = <<>>
    /\ windows_totals = <<>>
    /\ networks = <<>>
    /\ now = 0
    /\ stats = <<>>
    /\ panicked = FALSE
    /\ polls = 0
    /\ platform_source = "none"
    /\ show_virtual = FALSE
    /\ table = <<>>
    /\ filtered_stats = <<>>
    /\ win_stats = <<>>
    /\ before = [previous_stats |-> <<>>, now |-> 0, stats |-> <<>>]
    /\ proc_file \in ReaderFiles
    /\ linux_stats = <<>>
    /\ if_table_ptr = "null"
    /\ free_calls = 0
    /\ bytes = NoSize
    /\ formatted = NotFormatted

proc_net_dev_read ==
    /\ polls = 0
    /\ LET r == read_proc_net_dev(proc_file)
       IN  /\ platform_source' = IF r.ok THEN "ok" ELSE "error"
           /\ linux_stats' = r.stats
    /\ polls' = 1
    /\ UNCHANGED <<platform, overflow_checks, previous_stats, linux_totals,
                   windows_totals, networks, now, stats, panicked,
                   show_virtual, table, filtered_stats, win_stats, before,
                   proc_file, if_table_ptr, free_calls, bytes, formatted>>

NextProc == proc_net_dev_read

SpecProc == InitProc /\ [][NextProc]_vars

-----------------------------------------------------------------------------
(* Network monitor: src/src/network_monitor.rs *)

RECURSIVE GCD(_, _)
GCD(a, b) == IF b = 0 THEN a ELSE GCD(b, a % b)

\* the f64 quotient n / d of two integers, d > 0
Quotient(n, d) == LET g == GCD(n, d) IN <<n \div g, d \div g>>

Zero == <<0, 1>>

\* u64::wrapping_sub in the place of saturating_sub
wrapping_sub(a, b) == (a - b) % (U64Max + 1)

\* u64::saturating_sub
saturating_sub(a, b) == IF a >= b THEN a - b ELSE 0

\* Instant::duration_since: the elapsed time, zero when earlier is later
duration_since(t, earlier) == IF t >= earlier THEN t - earlier ELSE 0

\* speeds with a missing entry read as zero counters at time zero
speeds_from_zero(previous, interface_name, current_rx, current_tx, current_time) ==
    LET prev == IF interface_name \in DOMAIN previous
                THEN previous[interface_name]
                ELSE [rx |-> 0, tx |-> 0, time |-> 0]
        duration == duration_since(current_time, prev.time)
    IN  IF duration > 0
        THEN <<Quotient(saturating_sub(current_rx, prev.rx), duration),
               Quotient(saturating_sub(current_tx, prev.tx), duration)>>
        ELSE <<Zero, Zero>>

\* (download_speed, upload_speed) of one interface against previous_stats
speeds(previous, interface_name, current_rx, current_tx, current_time) ==
    IF interface_name \in DOMAIN previous
    THEN LET prev == previous[interface_name]
             duration == duration_since(current_time, prev.time)
         IN  IF duration > 0
             THEN <<Quotient(saturating_sub(current_rx, prev.rx), duration),
                    Quotient(saturating_sub(current_tx, prev.tx), duration)>>
             ELSE <<Zero, Zero>>
    ELSE <<Zero, Zero>>

\* HashMap::insert
Insert(map, key, value) ==
    [k \in DOMAIN map \cup {key} |-> IF k = key THEN value ELSE map[k]]

\* one iteration of either loop: rates, previous_stats update, push
observe(acc, interface_name, current_rx, current_tx, current_time) ==
    LET sp == speeds(acc.previous, interface_name, current_rx, current_tx,
                     current_time)
    IN  [previous |-> Insert(acc.previous, interface_name,
                             [rx |-> current_rx, tx |-> current_tx,
                              time |-> current_time]),
         stats    |-> Append(acc.stats,
                             [name              |-> interface_name,
                              bytes_received    |-> current_rx,
                              bytes_transmitted |-> current_tx,
                              download_speed    |-> sp[1],
                              upload_speed      |-> sp[2],
                              is_active         |-> current_rx > 0 \/ current_tx > 0])]

\* "Remove WFP and other technical suffixes for cleaner display"
display_name(n) ==
    Trim(Remove(Remove(Remove(Remove(n,
        "-WFP Native MAC Layer LightWeight Filter-0000"),
        "-WFP Native MAC Layer LightWeight Filter"),
        "-Miniport Adapter"),
        "-Virtual Switch"))

\* the names the classifier gives the entries of the monitor's tables
MonitorKeys ==
    { dedup_key(raw_stats(<<row>>)[1]) :
        row \in Rows(MonitorRowNames \cup DedupRowNames) }

\* display_name tabulated over those names
display_names == [n \in MonitorKeys |-> display_name(n)] @@ <<>>

\* the display name the monitor gives a classifier entry
interface_name_of(stat) ==
    display_names[IF stat.friendly_name # "" THEN stat.friendly_name
                  ELSE stat.name]

\* the loop over win_stats (Windows table path)
RECURSIVE windows_loop(_, _, _, _)
windows_loop(acc, entries, i, current_time) ==
    IF i > Len(entries) THEN acc
    ELSE windows_loop(observe(acc, interface_name_of(entries[i]),
                              entries[i].bytes_received,
                              entries[i].bytes_transmitted, current_time),
                      entries, i + 1, current_time)

\* the first entry of windows_totals, in iteration order, whose name contains
\* the interface name or is contained in it
RECURSIVE partial_match(_, _, _, _)
partial_match(totals, order, i, interface_name) ==
    IF i > Len(order) THEN [found |-> FALSE]
    ELSE IF Contains(interface_name, order[i]) \/ Contains(order[i], interface_name)
         THEN [found |-> TRUE, rx |-> totals[order[i]].rx, tx |-> totals[order[i]].tx]
         ELSE partial_match(totals, order, i + 1, interface_name)

\* (current_rx, current_tx) of one generically enumerated interface
current_counters(os, ltotals, wtotals, worder, interface_name, network) ==
    IF os = "linux"
    THEN IF interface_name \in DOMAIN ltotals
         THEN ltotals[interface_name]
         ELSE [rx |-> network.received, tx |-> network.transmitted]
    ELSE IF os = "windows"
    THEN IF interface_name \in DOMAIN wtotals
         THEN wtotals[interface_name]
         ELSE LET found == partial_match(wtotals, worder, 1, interface_name)
              IN  IF found.found THEN [rx |-> found.rx, tx |-> found.tx]
                  ELSE [rx |-> network.received, tx |-> network.transmitted]
    ELSE [rx |-> network.received, tx |-> network.transmitted]

\* the loop over self.networks (generic path), in enumeration order; counters
\* holds the (current_rx, current_tx) selected for each interface
RECURSIVE generic_loop(_, _, _, _, _)
generic_loop(acc, order, i, counters, current_time) ==
    IF i > Len(order) THEN acc
    ELSE generic_loop(observe(acc, order[i], counters[order[i]].rx,
                              counters[order[i]].tx, current_time),
                      order, i + 1, counters, current_time)

Platforms == {"linux", "windows", "other"}

\* the interfaces the generic source can enumerate on each platform
GenericNames(os) ==
    IF os = "linux" THEN {"eth0", "lo"}
    ELSE IF os = "windows" THEN {"Ethernet", "Loopback Pseudo-Interface 1"}
    ELSE {"en0", "lo0"}

\* the loopback interfaces among them: what they transmit they receive
LoopbackNames == {"lo", "Loopback Pseudo-Interface 1", "lo0"}

\* every name a snapshot of the model can hold
SnapshotNames ==
    UNION { GenericNames(os) : os \in Platforms }
        \cup { display_name(k) : k \in MonitorKeys }

\* StrLess tabulated over those names
name_less == [a \in SnapshotNames, b \in SnapshotNames |-> StrLess(a, b)] @@ <<>>

\* Vec::sort_by(|a, b| a.name.cmp(&b.name)): a stable insertion of each
\* element after the elements that are not greater
RECURSIVE insert_sorted(_, _)
insert_sorted(sorted, x) ==
    IF sorted = <<>> THEN <<x>>
    ELSE IF name_less[x.name, sorted[Len(sorted)].name]
         THEN Append(insert_sorted(SubSeq(sorted, 1, Len(sorted) - 1), x),
                     sorted[Len(sorted)])
         ELSE Append(sorted, x)

\* the snapshot left in the order it was pushed
unsorted(v, n) == v

RECURSIVE sort_by_name(_, _)
sort_by_name(v, n) ==
    IF n = 0 THEN <<>> ELSE insert_sorted(sort_by_name(v, n - 1), v[n])

\* every order in which the keys of a map can be enumerated
KeyOrders(map) ==
    LET n == Cardinality(DOMAIN map)
    IN  {s \in [1..n -> DOMAIN map] : \A i, j \in 1..n : i # j => s[i] # s[j]}

\* linux_totals after a successful read: cleared, then one insert per row
RECURSIVE insert_totals(_, _, _)
insert_totals(totals, proc_stats, i) ==
    IF i > Len(proc_stats) THEN totals
    ELSE insert_totals(Insert(totals, proc_stats[i].name,
                              [rx |-> proc_stats[i].bytes_received,
                               tx |-> proc_stats[i].bytes_transmitted]),
                       proc_stats, i + 1)

-----------------------------------------------------------------------------
(* Interfaces the generic source can enumerate *)

\* the content of self.networks after networks.refresh()
GenericNetworks(os) ==
    { nets \in UNION { [present -> [received : U64, transmitted : U64]] :
                         present \in SUBSET GenericNames(os) } :
        \A n \in DOMAIN nets \cap LoopbackNames :
            nets[n].received = nets[n].transmitted }

\* the input sets, enumerated once
generic_networks == [os \in Platforms |-> GenericNetworks(os) \cup {}] @@ <<>>

proc_files == MonitorProcFiles \cup {}

\* outcomes of GetIfTable2: an error code, a null table, or a table
IfTableResults ==
    { [status |-> "error", rows |-> <<>>], [status |-> "null", rows |-> <<>>] }
    \cup { [status |-> "ok", rows |-> t] : t \in MonitorTables }

iftable_results == IfTableResults \cup {}

-----------------------------------------------------------------------------
(* The monitor *)

Init ==
    /\ platform \in Platforms
    \* network_windows.rs holds the only arithmetic that can overflow
    /\ overflow_checks \in IF platform = "windows" THEN BOOLEAN ELSE {FALSE}
    /\ previous_stats = <<>>
    /\ linux_totals = <<>>
    /\ windows_totals = <<>>
    /\ networks = <<>>
    /\ now = 0
    /\ stats = <<>>
    /\ panicked = FALSE
    /\ polls = 0
    /\ platform_source = "none"
    /\ show_virtual = FALSE
    /\ table = <<>>
    /\ filtered_stats = <<>>
    /\ win_stats = <<>>
    /\ before = [previous_stats |-> <<>>, now |-> 0, stats |-> <<>>]
    /\ proc_file = NoFile
    /\ linux_stats = <<>>
    /\ if_table_ptr = "null"
    /\ free_calls = 0
    /\ bytes = NoSize
    /\ formatted = NotFormatted

\* the generic path of refresh: the loop over self.networks, then the sort
generic_path(nets, totals, current_time) ==
    \E order \in KeyOrders(nets), worder \in KeyOrders(windows_totals) :
        LET counters == [n \in DOMAIN nets |->
                            current_counters(platform, totals, windows_totals,
                                             worder, n, nets[n])]
            acc == generic_loop([previous |-> previous_stats, stats |-> <<>>],
                                order, 1, counters, current_time)
        IN  /\ previous_stats' = acc.previous
            /\ stats' = sort_by_name(acc.stats, Len(acc.stats))
            /\ before' = [previous_stats |-> previous_stats, now |-> now,
                          stats |-> stats]
            /\ networks' = nets
            /\ panicked' = FALSE

\* NetworkMonitor::refresh on Linux
refresh_linux(nets, file, current_time) ==
    LET r == proc_net_dev[file]
        totals == IF r.ok THEN insert_totals(<<>>, r.stats, 1) ELSE linux_totals
    IN  /\ linux_totals' = totals
        /\ platform_source' = IF r.ok THEN "ok" ELSE "error"
        /\ proc_file' = file
        /\ linux_stats' = r.stats
        /\ generic_path(nets, totals, current_time)
        /\ UNCHANGED <<show_virtual, table, filtered_stats, win_stats,
                       if_table_ptr, free_calls>>

\* NetworkMonitor::refresh on Windows
refresh_windows(sv, nets, result, current_time) ==
    /\ platform_source' = result.status
    /\ show_virtual' = sv
    /\ UNCHANGED <<linux_totals, proc_file, linux_stats>>
    /\ IF result.status = "ok"
       THEN LET r == iftable2_stats[result.rows, sv, overflow_checks]
            IN  /\ table' = result.rows
                /\ if_table_ptr' = "table"
                /\ free_calls' \in IF r.panic THEN {0, drop("table")}
                                  ELSE {drop("table")}
                /\ IF r.panic
                   THEN /\ panicked' = TRUE
                        /\ UNCHANGED <<previous_stats, stats, networks,
                                       filtered_stats, win_stats, before>>
                   ELSE \E unique_stats \in Enumerations(r.interface_map) :
                          LET acc == windows_loop([previous |-> previous_stats,
                                                   stats |-> <<>>],
                                                  unique_stats, 1, current_time)
                          IN  /\ filtered_stats' = r.filtered
                              /\ win_stats' = unique_stats
                              /\ previous_stats' = acc.previous
                              /\ stats' = sort_by_name(acc.stats, Len(acc.stats))
                              /\ before' = [previous_stats |-> previous_stats,
                                            now |-> now, stats |-> stats]
                              /\ networks' = <<>>
                              /\ panicked' = FALSE
       ELSE /\ generic_path(nets, linux_totals, current_time)
            \* both early returns precede the construction of _table_guard
            /\ if_table_ptr' = "null"
            /\ free_calls' = 0
            /\ table' = <<>>
            /\ filtered_stats' = <<>>
            /\ win_stats' = <<>>

\* NetworkMonitor::refresh on any other target
refresh_other(nets, current_time) ==
    /\ generic_path(nets, linux_totals, current_time)
    /\ platform_source' = "none"
    /\ UNCHANGED <<linux_totals, show_virtual, table, filtered_stats, win_stats,
                   proc_file, linux_stats, if_table_ptr, free_calls>>

\* NetworkMonitor::refresh(show_virtual) with /proc/net/dev drawn from files
\* and the outcome of GetIfTable2 from results; the generic source is drawn
\* where the call enumerates it
refresh_from(files, results) ==
    /\ ~panicked
    /\ polls < MaxPolls
    /\ polls' = polls + 1
    /\ \E dt \in 0..MaxDt :
        /\ now' = now + dt
        /\ IF platform = "linux"
           THEN \E nets \in generic_networks[platform], file \in files :
                    refresh_linux(nets, file, now + dt)
           ELSE IF platform = "windows"
           THEN \E sv \in BOOLEAN, result \in results :
                    IF result.status = "ok"
                    THEN refresh_windows(sv, <<>>, result, now + dt)
                    ELSE \E nets \in generic_networks[platform] :
                            refresh_windows(sv, nets, result, now + dt)
           ELSE \E nets \in generic_networks[platform] :
                    refresh_other(nets, now + dt)
    /\ UNCHANGED <<platform, overflow_checks, windows_totals, bytes, formatted>>

refresh == refresh_from(proc_files, iftable_results)

Next == refresh

Spec == Init /\ [][Next]_vars

-----------------------------------------------------------------------------
(* The monitor on Linux, polled with the counter tables of the reconciler *)

reconciler_files == ReconcilerProcFiles \cup {}

InitLinux == Init /\ platform = "linux"

refresh_on_linux == refresh_from(reconciler_files, {})

NextLinux == refresh_on_linux

SpecLinux == InitLinux /\ [][NextLinux]_vars

-----------------------------------------------------------------------------
(* The monitor on Windows, polled with tables that hold one deduplication
   group *)

dedup_results == { [status |-> "ok", rows |-> t] : t \in DedupTables } \cup {}

InitDedup == Init /\ platform = "windows"

refresh_on_windows == refresh_from({}, dedup_results)

NextDedup == refresh_on_windows

SpecDedup == InitDedup /\ [][NextDedup]_vars

-----------------------------------------------------------------------------
(* Properties of the snapshot returned by refresh *)

Samples == {stats[i] : i \in DOMAIN stats}

NonNegative(rate) == rate[1] >= 0 /\ rate[2] > 0

\* C1: every rate of every snapshot is >= 0, and a counter that is lower than
\* the one in the stored previous sample gives rate exactly 0 in that
\* direction
C1_RatesNeverNegative ==
    \A s \in Samples :
        /\ NonNegative(s.download_speed)
        /\ NonNegative(s.upload_speed)
        /\ s.name \in DOMAIN before.previous_stats =>
            /\ s.bytes_received < before.previous_stats[s.name].rx
                   => s.download_speed = Zero
            /\ s.bytes_transmitted < before.previous_stats[s.name].tx
                   => s.upload_speed = Zero

\* a poll after a positive delay in which a receive counter went down
C1_Witness ==
    \E s \in Samples :
        /\ s.name \in DOMAIN before.previous_stats
        /\ now > before.previous_stats[s.name].time
        /\ s.bytes_received < before.previous_stats[s.name].rx
        /\ s.download_speed = Zero

\* C2: when the clock advanced since the preceding poll, a name of both
\* snapshots whose counters did not decrease has the rates
\* (counter now - counter in the preceding snapshot) / (elapsed time)
C2_RateIsDeltaOverElapsed ==
    now > before.now =>
        \A s \in Samples :
            \A j \in DOMAIN before.stats :
                LET p == before.stats[j]
                IN  ( /\ s.name = p.name
                      /\ s.bytes_received >= p.bytes_received
                      /\ s.bytes_transmitted >= p.bytes_transmitted )
                    => /\ s.download_speed =
                            Quotient(s.bytes_received - p.bytes_received,
                                     now - before.now)
                       /\ s.upload_speed =
                            Quotient(s.bytes_transmitted - p.bytes_transmitted,
                                     now - before.now)

\* C3: a sample whose name has no stored previous sample, or whose stored
\* previous sample is not older than the poll, has both rates 0; and every
\* enumerated interface is returned
C3_FirstObservationIsZero ==
    /\ \A s \in Samples :
        ( \/ s.name \notin DOMAIN before.previous_stats
          \/ now <= before.previous_stats[s.name].time )
        => s.download_speed = Zero /\ s.upload_speed = Zero
    /\ \A n \in DOMAIN networks : \E s \in Samples : s.name = n
    /\ (platform = "windows" /\ platform_source = "ok" /\ ~panicked)
        => Len(stats) = Len(win_stats)

\* one snapshot with a first observation of an interface that has traffic and
\* an interface polled twice in the same instant with a larger counter
C3_Witness ==
    /\ \E s \in Samples :
        /\ s.name \notin DOMAIN before.previous_stats
        /\ s.bytes_received > 0
        /\ s.download_speed = Zero /\ s.upload_speed = Zero
    /\ \E s \in Samples :
        /\ s.name \in DOMAIN before.previous_stats
        /\ now = before.previous_stats[s.name].time
        /\ s.bytes_received > before.previous_stats[s.name].rx
        /\ s.download_speed = Zero

\* C4: the names of one snapshot are pairwise distinct
C4_NamesDistinct ==
    \A i, j \in DOMAIN stats : i # j => stats[i].name # stats[j].name

\* C5: every snapshot is in ascending order of name
C5_SortedByName ==
    \A i, j \in DOMAIN stats :
        i < j => ~StrLess(stats[j].name, stats[i].name)

\* a snapshot of the second poll with two different names
C5_Witness ==
    /\ polls = 2
    /\ Len(stats) = 2
    /\ StrLess(stats[1].name, stats[2].name)

\* C6: in a poll whose platform source failed, the snapshot holds, for every
\* interface, the counters the generic source reports in that poll
C6_FallbackUsesGenericCounters ==
    (platform_source \in {"error", "null"} /\ ~panicked) =>
        /\ \A s \in Samples :
            /\ s.name \in DOMAIN networks
            /\ s.bytes_received = networks[s.name].received
            /\ s.bytes_transmitted = networks[s.name].transmitted
        /\ \A n \in DOMAIN networks : \E s \in Samples : s.name = n

\* C7: refresh never panics
C7_RefreshNeverPanics == ~panicked

\* C9: no name of a snapshot contains "Loopback"
C9_NoLoopbackInSnapshot ==
    \A s \in Samples : ~Contains(s.name, "Loopback")

-----------------------------------------------------------------------------
(* Properties of the classifier *)

Classified == polls = 1 /\ ~panicked

\* the entries of filtered_stats that share the key k
Group(k) == {i \in DOMAIN filtered_stats : dedup_key(filtered_stats[i]) = k}

Total(stat) == stat.bytes_received + stat.bytes_transmitted

\* the members of a group the claim allows to be kept: a largest total, and
\* among those a name without "WFP" when there is one
Preferred(k) ==
    LET best == {i \in Group(k) :
                    \A j \in Group(k) :
                        Total(filtered_stats[i]) >= Total(filtered_stats[j])}
        clean == {i \in best : ~Contains(filtered_stats[i].name, "WFP")}
    IN  IF clean # {} THEN clean ELSE best

\* C8: every group of surviving entries with one (non-empty) key has exactly
\* one output entry, named by the key, with the counters of a member of
\* largest bytes_received + bytes_transmitted, a name without "WFP" preferred
\* among ties
C8_DedupKeepsLargestTotal ==
    Classified =>
        \A k \in {dedup_key(filtered_stats[i]) : i \in DOMAIN filtered_stats} \ {""} :
            /\ Cardinality({e \in DOMAIN win_stats : win_stats[e].name = k}) = 1
            /\ \A e \in DOMAIN win_stats :
                win_stats[e].name = k =>
                    \E m \in Preferred(k) :
                        /\ win_stats[e].bytes_received
                               = filtered_stats[m].bytes_received
                        /\ win_stats[e].bytes_transmitted
                               = filtered_stats[m].bytes_transmitted

AlwaysExcludeMarkers ==
    { "Loopback", "Microsoft Kernel Debug", "Teredo", "6to4", "ISATAP",
      "QoS Packet Scheduler", "WFP", "LightWeight Filter", "Native MAC Layer" }

\* C10: a row whose name or friendly name contains an always-exclude marker
\* does not pass the filter, whatever show_virtual is
C10_AlwaysExcludeBothFields ==
    Classified =>
        \A i \in DOMAIN table :
            LET stat == raw_stats(table)[i]
            IN  (\E m \in AlwaysExcludeMarkers :
                    Contains(stat.name, m) \/ Contains(stat.friendly_name, m))
                => stat \notin Range(filtered_stats)

VirtualMarkers ==
    { "Miniport", "Virtual", "TAP", "VPN", "OpenVPN", "VMware", "VirtualBox",
      "Tailscale", "WireGuard" }

HasMarker(stat, markers) ==
    \E m \in markers : Contains(stat.name, m) \/ Contains(stat.friendly_name, m)

\* C11: with show_virtual false, a row whose name or friendly name contains a
\* virtual-adapter marker does not pass the filter; with show_virtual true, a
\* row with such a marker and no always-exclude marker passes the filter
C11_VirtualFilterOnlyWhenHidden ==
    Classified =>
        \A i \in DOMAIN table :
            LET stat == raw_stats(table)[i]
            IN  HasMarker(stat, VirtualMarkers) =>
                    /\ ~show_virtual => stat \notin Range(filtered_stats)
                    /\ (show_virtual /\ ~HasMarker(stat, AlwaysExcludeMarkers))
                           => stat \in Range(filtered_stats)

-----------------------------------------------------------------------------
(* Properties of the reconciler *)

\* the platform-specific table of the last poll: name -> (rx, tx)
PlatformTable ==
    IF platform = "linux" /\ platform_source = "ok" THEN linux_totals
    ELSE IF platform = "windows" THEN windows_totals
    ELSE <<>>

Related(a, b) == Contains(a, b) \/ Contains(b, a)

\* C12: every generically enumerated name is reported with the counters of
\* the platform entry of exactly that name; failing that, of a platform entry
\* whose name contains it or is contained in it; failing that, with the
\* generic counters
C12_ReconcilerPrecedence ==
    (polls > 0 /\ ~panicked) =>
        \A n \in DOMAIN networks :
            \E s \in Samples :
                /\ s.name = n
                /\ LET got == [rx |-> s.bytes_received, tx |-> s.bytes_transmitted]
                       T == PlatformTable
                   IN  IF n \in DOMAIN T THEN got = T[n]
                       ELSE IF \E k \in DOMAIN T : Related(n, k)
                       THEN \E k \in DOMAIN T : Related(n, k) /\ got = T[k]
                       ELSE got = [rx |-> networks[n].received,
                                   tx |-> networks[n].transmitted]

-----------------------------------------------------------------------------
(* Properties of the previous-sample state *)

\* C13: after a refresh call previous_stats is previous_stats of before the
\* call overridden at the names of the returned snapshot, each sample's name
\* mapped to that sample's (bytes_received, bytes_transmitted, now); the
\* other entries are unchanged and none is removed
C13_PreviousStateOverriddenAtSnapshot ==
    (polls > 0 /\ ~panicked) =>
        LET names == {s.name : s \in Samples}
        IN  /\ DOMAIN previous_stats = DOMAIN before.previous_stats \cup names
            /\ \A s \in Samples :
                previous_stats[s.name] = [rx   |-> s.bytes_received,
                                          tx   |-> s.bytes_transmitted,
                                          time |-> now]
            /\ \A n \in DOMAIN before.previous_stats \ names :
                previous_stats[n] = before.previous_stats[n]

-----------------------------------------------------------------------------
(* Properties of the interface table handle *)

\* C14: a call that returns has released the table it acquired exactly once,
\* and has released nothing when it acquired none
C14_TableReleasedOnce ==
    ~panicked => free_calls = (IF if_table_ptr = "table" THEN 1 ELSE 0)

\* a second poll that read a table with rows, after which the table is free
C14_Witness ==
    /\ polls = 2
    /\ ~panicked
    /\ platform_source = "ok"
    /\ if_table_ptr = "table"
    /\ Len(table) > 0
    /\ free_calls = 1

-----------------------------------------------------------------------------
(* Properties of the reader *)

\* the well-formed rows of proc_file after its first two lines, in file order
RECURSIVE WellFormedRows(_)
WellFormedRows(i) ==
    IF i > Len(proc_file.lines) THEN <<>>
    ELSE LET here == {r \in ReaderRows :
                         proc_file.lines[i] = DataLine(r[1], r[2], r[3])}
         IN  (IF i > 2 /\ here # {}
              THEN LET r == CHOOSE r \in here : TRUE
                   IN  << [name |-> r[1], bytes_received |-> r[2],
                           bytes_transmitted |-> r[3]] >>
              ELSE <<>>) \o WellFormedRows(i + 1)

\* C15: a read of a table that can be opened succeeds, whatever rows it
\* holds, and returns the well-formed rows after the first two lines, all of
\* them and nothing else
C15_MalformedRowsSkipped ==
    (polls = 1 /\ proc_file.open /\ proc_file.readable) =>
        /\ platform_source = "ok"
        /\ linux_stats = WellFormedRows(1)

-----------------------------------------------------------------------------
(* Properties of the formatters *)

\* the exponent k of the unit the last call chose
UnitIndex ==
    LET units == IF formatted.fn = "format_bytes" THEN RateUnits ELSE TotalUnits
    IN  (CHOOSE i \in DOMAIN units : units[i] = formatted.unit) - 1

LargestUnitIndex ==
    (IF formatted.fn = "format_bytes" THEN Len(RateUnits) ELSE Len(TotalUnits)) - 1

\* bytes / 1024^k < 1024
InputBelowBase(k) == \A i \in DOMAIN bytes.int : i > k + 1 => bytes.int[i] = 0

\* bytes / 1024^k
Scaled(k) ==
    [int  |-> SubSeq(bytes.int, k + 1, Len(bytes.int)),
     frac |-> [i \in 1..k |-> bytes.int[k + 1 - i]] \o bytes.frac]

\* C16 as stated: the chosen exponent k is the smallest with
\* bytes / 1024^k < 1024, and the size printed is bytes / 1024^k
C16_LargestUnitBelowBase ==
    formatted.fn # "none" =>
        /\ InputBelowBase(UnitIndex)
        /\ UnitIndex = 0 \/ ~InputBelowBase(UnitIndex - 1)
        /\ formatted.size = Scaled(UnitIndex)

\* C16: the chosen exponent k is the smallest with bytes / 1024^k < 1024 when
\* a unit of the formatter has that exponent, and the exponent of the
\* formatter's largest unit otherwise; the size printed is bytes / 1024^k
C16_LargestUnitBelowBaseOrLast ==
    formatted.fn # "none" =>
        /\ InputBelowBase(UnitIndex) \/ UnitIndex = LargestUnitIndex
        /\ UnitIndex = 0 \/ ~InputBelowBase(UnitIndex - 1)
        /\ formatted.size = Scaled(UnitIndex)

\* a total of 1024^5 bytes or more, printed in TB with a size of 1024 or more
C16_Witness ==
    /\ formatted.fn = "format_total_bytes"
    /\ formatted.unit = "TB"
    /\ ~InputBelowBase(UnitIndex)
    /\ size_ge(formatted.size, Base)

-----------------------------------------------------------------------------
(* Properties of consecutive polls of the interface table *)

\* the same rows in t2 as in t1, no counter of a row lower in t2
RowsNonDecreasing(t1, t2) ==
    /\ Len(t1) = Len(t2)
    /\ \A i \in DOMAIN t1 :
        /\ t2[i].Description = t1[i].Description
        /\ t2[i].Alias = t1[i].Alias
        /\ t2[i].InOctets >= t1[i].InOctets
        /\ t2[i].OutOctets >= t1[i].OutOctets

\* C17: between two consecutive polls of the interface table with the same
\* show_virtual, when no counter of a row went down, no reported counter of a
\* name of both snapshots went down
C17_ReportedCountersMonotonic ==
    [][ ( /\ platform = "windows"
          /\ polls >= 1
          /\ platform_source = "ok" /\ platform_source' = "ok"
          /\ ~panicked /\ ~panicked'
          /\ show_virtual' = show_virtual
          /\ RowsNonDecreasing(table, table') )
        => \A i \in DOMAIN stats : \A j \in DOMAIN stats' :
              stats[i].name = stats'[j].name
              => /\ stats'[j].bytes_received >= stats[i].bytes_received
                 /\ stats'[j].bytes_transmitted >= stats[i].bytes_transmitted
      ]_vars

-----------------------------------------------------------------------------
(* Properties of the classifier under reordering of the table *)

\* the orders in which the rows of the table can be enumerated
RowOrders ==
    LET n == Len(table)
    IN  {p \in [1..n -> 1..n] : \A i, j \in 1..n : i # j => p[i] # p[j]}

Reordered(p) == [i \in 1..Len(table) |-> table[p[i]]]

\* the (name, bytes_received, bytes_transmitted) triples of a set of entries
Triples(entries) ==
    {<<e.name, e.bytes_received, e.bytes_transmitted>> : e \in entries}

\* C18: the classifier returns the same set of (name, bytes_received,
\* bytes_transmitted) for every order of the rows of the table
C18_ResultIndependentOfRowOrder ==
    Classified =>
        \A p \in RowOrders :
            LET r == get_iftable2_stats(Reordered(p), show_virtual, overflow_checks)
            IN  /\ ~r.panic
                /\ Triples(Range(r.interface_map)) = Triples(Range(win_stats))

====
